---- MODULE Spec2Model ----
(***************************************************************************)
(* Model of pydisalexi/MO_similarity.py: the nine Monin-Obukhov routines   *)
(* as the syntax trees of their Python bodies, the Python and numpy        *)
(* semantics that evaluate them, and a caller that owns arrays and calls   *)
(* the routines on them.                                                   *)
(*                                                                         *)
(* Numbers.  A float64 is modelled by a decimal float with a four-digit    *)
(* mantissa, [k, m, e]: k = "fin" is m * 10^e with m = 0 or                *)
(* 1000 <= |m| <= 9999, k = "inf" is the infinity of sign m, k = "nan" is  *)
(* NaN.  The special values, the exponent range and the rules for          *)
(* x/0, 0/0, inf-inf, log and comparisons with NaN are those of IEEE-754;  *)
(* results are truncated to four digits instead of rounded to 53 bits.     *)
(* Zero is unsigned (no input of the model is -0.0).                       *)
(***************************************************************************)
EXTENDS Integers, Sequences, FiniteSets, TLC

\* ------------------------------------------------------------------ floats
NaN  == [k |-> "nan", m |-> 0, e |-> 0]
PInf == [k |-> "inf", m |-> 1, e |-> 0]
NInf == [k |-> "inf", m |-> -1, e |-> 0]
Zero == [k |-> "fin", m |-> 0, e |-> 0]

\* largest and smallest decimal exponent of a four-digit mantissa in float64
EMax == 305
EMin == -327

Abs(i) == IF i < 0 THEN -i ELSE i
Sgn(i) == IF i < 0 THEN -1 ELSE IF i > 0 THEN 1 ELSE 0
\* integer quotient truncated toward zero
Quot(a, b) == Sgn(a) * Sgn(b) * (Abs(a) \div Abs(b))

RECURSIVE Pow10(_)
Pow10(n) == IF n <= 0 THEN 1 ELSE 10 * Pow10(n - 1)

\* number of decimal digits of a natural number below 2^31
Digits(a) ==
    IF a < 10 THEN 1 ELSE IF a < 100 THEN 2 ELSE IF a < 1000 THEN 3
    ELSE IF a < 10000 THEN 4 ELSE IF a < 100000 THEN 5 ELSE IF a < 1000000 THEN 6
    ELSE IF a < 10000000 THEN 7 ELSE IF a < 100000000 THEN 8
    ELSE IF a < 1000000000 THEN 9 ELSE 10

\* the four-digit float with exponent e, or its overflow or underflow
Ranged(m, e) ==
    IF e > EMax THEN (IF m > 0 THEN PInf ELSE NInf)
    ELSE IF e < EMin THEN Zero
    ELSE [k |-> "fin", m |-> m, e |-> e]

\* the float nearest zero-ward to m * 10^e, m having d digits
NormD(m, e, d) ==
    IF m = 0 THEN Zero
    ELSE IF d > 4 THEN Ranged(Quot(m, Pow10(d - 4)), e + (d - 4))
    ELSE Ranged(m * Pow10(4 - d), e - (4 - d))
Norm(m0, e0) ==
    CHOOSE r \in {NormD(v[1], v[2], Digits(Abs(v[1]))) : v \in {<<m0, e0>>}} : TRUE

F(m, e) == Norm(m, e)
One == F(1, 0)

IsNaN(x) == x.k = "nan"
IsInf(x) == x.k = "inf"
IsFin(x) == x.k = "fin"
Sign(x) == IF x.k = "nan" THEN 0 ELSE Sgn(x.m)

Neg(x) == [x EXCEPT !.m = -x.m]

\* x < y on floats; every comparison with NaN is false
Lt(x, y) ==
    IF IsNaN(x) \/ IsNaN(y) THEN FALSE
    ELSE IF IsInf(x) THEN x.m < 0 /\ ~(IsInf(y) /\ y.m < 0)
    ELSE IF IsInf(y) THEN y.m > 0
    ELSE IF Sign(x) # Sign(y) THEN Sign(x) < Sign(y)
    ELSE IF Sign(x) = 0 THEN FALSE
    ELSE IF x.e # y.e THEN (IF Sign(x) > 0 THEN x.e < y.e ELSE x.e > y.e)
    ELSE x.m < y.m
FEq(x, y) == ~IsNaN(x) /\ ~IsNaN(y) /\ x = y
Ge(x, y) == FEq(x, y) \/ Lt(y, x)
Ne(x, y) == ~FEq(x, y)

Add(x, y) ==
    IF IsNaN(x) \/ IsNaN(y) THEN NaN
    ELSE IF IsInf(x) THEN (IF IsInf(y) /\ y.m # x.m THEN NaN ELSE x)
    ELSE IF IsInf(y) THEN y
    ELSE IF x.m = 0 THEN y
    ELSE IF y.m = 0 THEN x
    ELSE IF x.e - y.e > 5 THEN x
    ELSE IF y.e - x.e > 5 THEN y
    ELSE IF x.e >= y.e THEN Norm(x.m * Pow10(x.e - y.e) + y.m, y.e)
    ELSE Norm(y.m * Pow10(y.e - x.e) + x.m, x.e)
Sub(x, y) == Add(x, Neg(y))

Mul(x, y) ==
    IF IsNaN(x) \/ IsNaN(y) THEN NaN
    ELSE IF IsInf(x) \/ IsInf(y)
         THEN (IF Sign(x) * Sign(y) = 0 THEN NaN
               ELSE IF Sign(x) * Sign(y) > 0 THEN PInf ELSE NInf)
    ELSE Norm(x.m * y.m, x.e + y.e)

\* IEEE division: x/0 is a signed infinity, 0/0 and inf/inf are NaN
Div(x, y) ==
    IF IsNaN(x) \/ IsNaN(y) THEN NaN
    ELSE IF IsInf(x) THEN (IF IsInf(y) THEN NaN
                           ELSE IF x.m * (IF Sign(y) < 0 THEN -1 ELSE 1) > 0
                                THEN PInf ELSE NInf)
    ELSE IF IsInf(y) THEN Zero
    ELSE IF y.m = 0 THEN (IF x.m = 0 THEN NaN
                          ELSE IF x.m > 0 THEN PInf ELSE NInf)
    ELSE Norm(Quot(x.m * 10000, y.m), x.e - y.e - 4)

FMax(x, y) == IF IsNaN(x) \/ IsNaN(y) THEN NaN ELSE IF Lt(x, y) THEN y ELSE x
FMin(x, y) == IF IsNaN(x) \/ IsNaN(y) THEN NaN ELSE IF Lt(y, x) THEN y ELSE x

\* ---------------------------------------- fixed point, scale 10^4, for libm
FS == 10000
LN2 == 6931
LN10 == 23026
PI_2 == 15708
PI_6 == 5236
SQRT3 == 17321

\* a finite float of magnitude below 10^5 as a fixed-point integer
ToFixed(x) ==
    IF x.m = 0 THEN 0
    ELSE IF x.e + 4 >= 0 THEN x.m * Pow10(x.e + 4)
    ELSE IF -(x.e + 4) > 4 THEN 0
    ELSE Quot(x.m, Pow10(-(x.e + 4)))

RECURSIVE Halve(_, _)
\* <<v', j>> with v = v' * 2^j and v' < 2
Halve(v, j) == IF v >= 2 * FS THEN Halve(v \div 2, j + 1) ELSE <<v, j>>

\* ln of a fixed-point v in [1, 2): 2 * atanh((v-1)/(v+1))
LnSeries(v) ==
    LET t  == ((v - FS) * FS) \div (v + FS)
        t2 == (t * t) \div FS
        t3 == (t * t2) \div FS
        t5 == (t3 * t2) \div FS
        t7 == (t5 * t2) \div FS
    IN  2 * (t + t3 \div 3 + t5 \div 5 + t7 \div 7)

\* np.log
Ln(x) ==
    IF IsNaN(x) THEN NaN
    ELSE IF Sign(x) < 0 THEN NaN
    ELSE IF IsInf(x) THEN PInf
    ELSE IF x.m = 0 THEN NInf
    ELSE LET h == Halve(x.m * 10, 0)
         IN  Norm(LnSeries(h[1]) + h[2] * LN2 + (x.e + 3) * LN10, -4)

RECURSIVE ExpSeries(_, _, _, _)
\* sum of the Taylor terms of exp(r) from term number n on, r in [0, ln 2)
ExpSeries(r, term, n, acc) ==
    IF n > 9 \/ term = 0 THEN acc
    ELSE LET nxt == (term * r) \div (FS * n)
         IN  ExpSeries(r, nxt, n + 1, acc + nxt)

RECURSIVE Pow2(_)
Pow2(n) == IF n <= 0 THEN 1 ELSE 2 * Pow2(n - 1)

\* np.exp
Exp(x) ==
    IF IsNaN(x) THEN NaN
    ELSE IF IsInf(x) THEN (IF x.m > 0 THEN PInf ELSE Zero)
    ELSE IF Lt(F(7097, -1), x) THEN PInf
    ELSE IF Lt(x, F(-7450, -1)) THEN Zero
    ELSE LET fx == ToFixed(x)
             q  == fx \div LN10
             r  == fx - q * LN10
             j  == r \div LN2
             r2 == r - j * LN2
         IN  Norm(ExpSeries(r2, FS, 1, FS) * Pow2(j), q - 4)

\* x ** p for a float exponent p (np.power on float64)
Pow(x, p) ==
    IF IsNaN(x) \/ IsNaN(p) THEN NaN
    ELSE IF Sign(p) = 0 THEN One
    ELSE IF Sign(x) < 0 THEN NaN
    ELSE IF IsInf(x) THEN (IF Sign(p) > 0 THEN PInf ELSE Zero)
    ELSE IF x.m = 0 THEN (IF Sign(p) > 0 THEN Zero ELSE PInf)
    ELSE CHOOSE r \in {Exp(Mul(p, l)) : l \in {Ln(x)}} : TRUE

RECURSIVE IntPow(_, _)
\* x ** n for a positive integer exponent
IntPow(x, n) == IF n <= 1 THEN x ELSE Mul(IntPow(x, n - 1), x)

\* arctan of a fixed-point t with |t| <= tan(pi/12)
AtanSeries(t) ==
    LET t2 == (t * t) \div FS
        t3 == Quot(t * t2, FS)
        t5 == Quot(t3 * t2, FS)
        t7 == Quot(t5 * t2, FS)
    IN  t - Quot(t3, 3) + Quot(t5, 5) - Quot(t7, 7)

\* arctan of a fixed-point t in [0, 1]
AtanUnit(t) ==
    IF t <= 2679 THEN AtanSeries(t)
    ELSE PI_6 + AtanSeries(Quot((Quot(SQRT3 * t, FS) - FS) * FS, SQRT3 + t))

\* np.arctan
Atan(x) ==
    IF IsNaN(x) THEN NaN
    ELSE IF Sign(x) < 0 THEN
        (IF IsInf(x) THEN Norm(-PI_2, -4)
         ELSE IF Lt(x, F(-1, 0))
              THEN Norm(-(PI_2 - AtanUnit(ToFixed(Div(One, Neg(x))))), -4)
              ELSE Norm(-AtanUnit(ToFixed(Neg(x))), -4))
    ELSE IF IsInf(x) THEN Norm(PI_2, -4)
    ELSE IF Lt(One, x) THEN Norm(PI_2 - AtanUnit(ToFixed(Div(One, x))), -4)
    ELSE Norm(AtanUnit(ToFixed(x)), -4)

\* value of a float on assignment into an int64 array (truncation)
ToInt(x) ==
    IF ~IsFin(x) THEN Zero
    ELSE IF x.e >= 0 THEN x
    ELSE IF -x.e > 4 THEN Zero
    ELSE Norm(Quot(x.m, Pow10(-x.e)), 0)

\* ------------------------------------------------------------ numpy values
(***************************************************************************)
(* A value is a Python scalar (t = "py"), a numpy scalar or array          *)
(* (t = "np", shape <<>>, <<n>> or <<r, n>>, data in row-major order), the *)
(* name of an array object of the caller (t = "ref") or the exception a    *)
(* Python expression raised (t = "exc").  dt is float64 ("f8"), int64      *)
(* ("i8") or bool ("b1").  Division by zero raises ZeroDivisionError       *)
(* between two Python scalars and gives inf/NaN as soon as one operand is  *)
(* a numpy value.                                                          *)
(***************************************************************************)
Py(x)  == [t |-> "py", dt |-> "f8", shape |-> <<>>, data |-> <<x>>, exc |-> "none"]
PyI(x) == [t |-> "py", dt |-> "i8", shape |-> <<>>, data |-> <<x>>, exc |-> "none"]
Np(dt, shape, data) ==
    [t |-> "np", dt |-> dt, shape |-> shape, data |-> data, exc |-> "none"]
Exc(name) == [t |-> "exc", dt |-> "f8", shape |-> <<>>, data |-> <<>>, exc |-> name]
IsExc(v) == v.t = "exc"

\* np.asarray: a Python scalar becomes a new 0-d array, an ndarray is
\* returned as the same object
asarray(v) == IF v.t = "py" THEN [v EXCEPT !.t = "np"] ELSE v

Pad2(s) == IF Len(s) = 0 THEN <<1, 1>> ELSE IF Len(s) = 1 THEN <<1, s[1]>> ELSE s
Size(s) == Pad2(s)[1] * Pad2(s)[2]
BDim(p, q) == IF p = q THEN p ELSE IF p = 1 THEN q ELSE IF q = 1 THEN p ELSE -1
\* numpy broadcasting of two shapes; <<-1>> when they are incompatible
BShape(s1, s2) ==
    LET a  == Pad2(s1)
        b  == Pad2(s2)
        r  == BDim(a[1], b[1])
        c  == BDim(a[2], b[2])
        nd == IF Len(s1) > Len(s2) THEN Len(s1) ELSE Len(s2)
    IN  IF r < 0 \/ c < 0 THEN <<-1>>
        ELSE IF nd = 0 THEN <<>> ELSE IF nd = 1 THEN <<c>> ELSE <<r, c>>
\* element j (row-major, from 1) of data d of shape s broadcast to shape to
Pick(d, s, to, j) ==
    LET a == Pad2(s)
        r == (j - 1) \div Pad2(to)[2]
        c == (j - 1) % Pad2(to)[2]
    IN  d[(IF a[1] = 1 THEN 0 ELSE r) * a[2] + (IF a[2] = 1 THEN 0 ELSE c) + 1]

Ref(n) == [t |-> "ref", dt |-> "f8", shape |-> <<>>, data |-> <<>>, exc |-> n]
IsRef(a) == a.t = "ref"
\* the array a name stands for in the object store st
Deref(a, st) == IF IsRef(a) THEN st[a.exc] ELSE a
PyB(b) == [t |-> "py", dt |-> "b1", shape |-> <<>>, data |-> <<b>>, exc |-> "none"]
None == [t |-> "py", dt |-> "none", shape |-> <<>>, data |-> <<>>, exc |-> "none"]
\* the evaluated arguments of a call
Args(vals) == [t |-> "args", dt |-> "none", shape |-> <<>>, data |-> vals, exc |-> "none"]

\* the element-wise binary operators on floats
FOp(op, x, y) ==
    CASE op = "add"     -> Add(x, y)
      [] op = "sub"     -> Sub(x, y)
      [] op = "mul"     -> Mul(x, y)
      [] op = "div"     -> Div(x, y)
      [] op = "pow"     -> Pow(x, y)
      [] op = "maximum" -> FMax(x, y)
      [] op = "minimum" -> FMin(x, y)
      [] op = "lt"      -> Lt(x, y)
      [] op = "ge"      -> Ge(x, y)
      [] op = "eq"      -> FEq(x, y)
      [] op = "ne"      -> Ne(x, y)

\* what Python raises for x op y = r on two Python scalars
Raises(op, x, y, r) ==
    IF op = "div" /\ FEq(y, Zero) THEN "ZeroDivisionError"
    ELSE IF op = "pow" /\ FEq(x, Zero) /\ Sign(y) < 0 THEN "ZeroDivisionError"
    ELSE IF op = "pow" /\ IsFin(x) /\ IsFin(y) /\ r \in {PInf, NInf} THEN "OverflowError"
    ELSE "none"

\* the dtype of a op b
DType(op, a, b) ==
    IF op \in {"lt", "ge", "eq", "ne"} THEN "b1"
    ELSE IF op \in {"add", "sub", "mul"} /\ a.dt = "i8" /\ b.dt = "i8" THEN "i8"
    ELSE "f8"

\* the value of a op b with elements d: a Python scalar, or the exception
\* Python raises, between two Python scalars, a numpy value otherwise
\* (np.maximum and np.minimum always)
Result(op, a, b, d) ==
    IF a.t = "py" /\ b.t = "py" /\ op \notin {"maximum", "minimum"}
    THEN (IF Raises(op, a.data[1], b.data[1], d[1]) # "none"
          THEN Exc(Raises(op, a.data[1], b.data[1], d[1]))
          ELSE [t |-> "py", dt |-> DType(op, a, b), shape |-> <<>>, data |-> d,
                exc |-> "none"])
    ELSE Np(DType(op, a, b), BShape(a.shape, b.shape), d)

\* a op b, element by element on the broadcast operands
BinOp(op, a, b) ==
    IF IsExc(a) THEN a
    ELSE IF IsExc(b) THEN b
    ELSE IF BShape(a.shape, b.shape) = <<-1>> THEN Exc("ValueError")
    ELSE CHOOSE v \in
            {Result(op, a, b, d) :
                d \in {[j \in 1..Size(BShape(a.shape, b.shape)) |->
                          FOp(op, Pick(a.data, a.shape, BShape(a.shape, b.shape), j),
                                  Pick(b.data, b.shape, BShape(a.shape, b.shape), j))]}} :
            TRUE

\* the element-wise unary operators and functions of numpy
FFun(op, x) ==
    CASE op = "log"    -> Ln(x)
      [] op = "exp"    -> Exp(x)
      [] op = "arctan" -> Atan(x)
      [] op = "neg"    -> Neg(x)
      [] op = "pow2"   -> IntPow(x, 2)
      [] op = "pow3"   -> IntPow(x, 3)
      [] op = "zeros"  -> Zero
      [] op = "ones"   -> One

\* a unary operator or a numpy function of one argument.  -a, a**2 and a**3
\* keep the kind of a (a Python float raises OverflowError where numpy
\* gives inf), np.log, np.exp and np.arctan give a float64 numpy value,
\* "zeros" and "ones" are np.zeros(a.shape) and np.ones(a.shape)
UnOp(op, a) ==
    IF IsExc(a) THEN a
    ELSE IF op = "asarray" THEN asarray(a)
    ELSE CHOOSE v \in
            {IF op \in {"log", "exp", "arctan", "zeros", "ones"}
             THEN Np("f8", a.shape, d)
             ELSE IF a.t = "py" /\ op # "neg" /\ IsFin(a.data[1]) /\ IsInf(d[1])
                  THEN Exc("OverflowError")
             ELSE [a EXCEPT !.data = d] :
                d \in {[j \in 1..Len(a.data) |-> FFun(op, a.data[j])]}} : TRUE

RECURSIVE SelIdx(_, _)
\* the positions of the TRUE elements of a boolean sequence, from position j on
SelIdx(bs, j) ==
    IF j > Len(bs) THEN <<>>
    ELSE IF bs[j] THEN <<j>> \o SelIdx(bs, j + 1) ELSE SelIdx(bs, j + 1)

\* the positions of A that the boolean array i selects
Selected(A, i) ==
    IF Len(i.shape) = Len(A.shape) THEN SelIdx(i.data, 1)
    ELSE IF i.data[1] THEN [j \in 1..Len(A.data) |-> j] ELSE <<>>

\* A[i] for a boolean array i
GetMask(A, i) ==
    IF IsExc(A) THEN A
    ELSE IF IsExc(i) THEN i
    ELSE IF Len(i.shape) > Len(A.shape) THEN Exc("IndexError")
    ELSE IF Len(i.shape) = Len(A.shape)
         THEN (IF i.shape # A.shape THEN Exc("IndexError")
               ELSE Np(A.dt, <<Len(Selected(A, i))>>,
                       [j \in 1..Len(Selected(A, i)) |-> A.data[Selected(A, i)[j]]]))
    ELSE IF i.data[1] THEN Np(A.dt, <<1>> \o A.shape, A.data)
    ELSE Np(A.dt, <<0>> \o A.shape, <<>>)

RECURSIVE StripOnes(_, _)
\* the value's shape without leading 1s beyond nd dimensions
StripOnes(s, nd) ==
    IF Len(s) > nd /\ s[1] = 1 THEN StripOnes(Tail(s), nd) ELSE s

\* the element stored at position j of A by A[i] = V, sel being the
\* positions selected and to the shape of A[i]
Stored(A, V, sel, to, j) ==
    LET x == Pick(V.data, StripOnes(V.shape, Len(to)), to,
                  CHOOSE n \in 1..Len(sel) : sel[n] = j)
    IN  IF A.dt = "i8" THEN ToInt(x) ELSE x

\* A after A[i] = V, tgt being A[i] and sel the positions selected
SetSelected(A, V, tgt, sel) ==
    IF \/ Len(StripOnes(V.shape, Len(tgt.shape))) > Len(tgt.shape)
       \/ BShape(StripOnes(V.shape, Len(tgt.shape)), tgt.shape) # tgt.shape
    THEN Exc("ValueError")
    ELSE [A EXCEPT !.data =
             [j \in 1..Len(A.data) |->
                 IF \E n \in 1..Len(sel) : sel[n] = j
                 THEN Stored(A, V, sel, tgt.shape, j)
                 ELSE A.data[j]]]

\* A[i] = V for a boolean array i: the array A after the assignment, or the
\* exception raised
SetMask(A, i, V) ==
    IF IsExc(V) THEN V
    ELSE CHOOSE r \in
            {IF IsExc(tgt) THEN tgt
             ELSE CHOOSE q \in {SetSelected(A, V, tgt, sel) :
                                   sel \in {Selected(A, i)}} : TRUE :
                tgt \in {GetMask(A, i)}} : TRUE

\* ------------------------------------------------------- MO_similarity.py
(***************************************************************************)
(* Each function of the module is its Python body, written as a syntax     *)
(* tree: a list of statements over expressions.  Exec and Eval below give  *)
(* the trees the meaning Python and numpy give the source.                 *)
(***************************************************************************)
\* expressions: a name, a float literal, a op b, op(a), a[i], fn(args)
Var(n) == <<"var", n>>
Num(x) == <<"const", Py(x)>>
Bin(op, a, b) == <<"bin", op, a, b>>
Un(op, a) == <<"un", op, a>>
Idx(a, i) == <<"bin", "getitem", a, i>>
CallF(fn, args) == <<"call", fn, args>>
\* statements, each with the expression it evaluates first: n = e, n[i] = e
\* (e before i), if c: ... else: ..., return e
Assign(n, e) == <<"assign", n, e>>
AssignIdx(n, i, e) == <<"assignidx", n, Bin("operands", e, i)>>
If(c, then, else) == <<"if", "", c, then, else>>
Return(e) == <<"return", "", e>>
\* def f(params): body
Def(params, body) == [params |-> params, body |-> body]

\* von Karman's constant and the acceleration of gravity
k == F(4, -1)
gravity == F(98, -1)

\* meteo_utils.calc_lambda: latent heat of vaporisation (MJ kg-1) of air at
\* temperature T_A_K
calc_lambda ==
    Def(<<"T_A_K">>,
        << Return(Un("asarray",
               Bin("sub", Num(F(2501, -3)),
                   Bin("mul", Num(F(2361, -6)),
                       Bin("sub", Var("T_A_K"), Num(F(27315, -2))))))) >>)

calc_L ==
    Def(<<"ustar", "T_A_K", "rho", "c_p", "H", "LE">>,
        << Assign("ustar", Un("asarray", Var("ustar"))),
           Assign("T_A_K", Un("asarray", Var("T_A_K"))),
           Assign("rho", Un("asarray", Var("rho"))),
           Assign("c_p", Un("asarray", Var("c_p"))),
           Assign("H", Un("asarray", Var("H"))),
           Assign("LE", Un("asarray", Var("LE"))),
           Assign("Lambda", Bin("mul", CallF("calc_lambda", <<Var("T_A_K")>>),
                                Num(F(1, 6)))),
           Assign("E", Bin("div", Var("LE"), Var("Lambda"))),
           Assign("Hv", Bin("add", Var("H"),
                            Bin("mul", Bin("mul", Bin("mul", Num(F(61, -2)),
                                                      Var("T_A_K")),
                                           Var("c_p")),
                                Var("E")))),
           Assign("L", Un("asarray", Bin("mul", Un("ones", Var("ustar")),
                                         Num(PInf)))),
           Assign("i", Bin("ne", Var("Hv"), Num(Zero))),
           Assign("L_const", Un("asarray", Bin("div", Bin("mul", Num(k), Num(gravity)),
                                               Var("T_A_K")))),
           AssignIdx("L", Var("i"),
               Bin("div", Un("neg", Un("pow3", Idx(Var("ustar"), Var("i")))),
                   Bin("mul", Idx(Var("L_const"), Var("i")),
                       Bin("div", Idx(Var("Hv"), Var("i")),
                           Bin("mul", Idx(Var("rho"), Var("i")),
                               Idx(Var("c_p"), Var("i"))))))),
           Return(Un("asarray", Var("L"))) >>)

calc_Psi_H ==
    Def(<<"zoL">>,
        << Assign("zoL", Un("asarray", Var("zoL"))),
           Assign("Psi_H", Un("zeros", Var("zoL"))),
           Assign("a", Num(F(61, -1))),
           Assign("b", Num(F(25, -1))),
           AssignIdx("Psi_H", Bin("ge", Var("zoL"), Num(Zero)),
               Bin("mul", Un("neg", Var("a")),
                   Un("log",
                      Bin("add", Idx(Var("zoL"), Bin("ge", Var("zoL"), Num(Zero))),
                          Bin("pow",
                              Bin("add", Num(One),
                                  Bin("pow", Idx(Var("zoL"),
                                                 Bin("ge", Var("zoL"), Num(Zero))),
                                      Var("b"))),
                              Bin("div", Num(One), Var("b"))))))),
           Assign("y", Un("neg", Var("zoL"))),
           Assign("c", Num(F(33, -2))),
           Assign("d", Num(F(57, -3))),
           Assign("n", Num(F(78, -2))),
           AssignIdx("Psi_H", Bin("lt", Var("zoL"), Num(Zero)),
               Bin("mul", Bin("div", Bin("sub", Num(One), Var("d")), Var("n")),
                   Un("log",
                      Bin("div",
                          Bin("add", Var("c"),
                              Bin("pow", Idx(Var("y"), Bin("lt", Var("zoL"), Num(Zero))),
                                  Var("n"))),
                          Var("c"))))),
           Return(Un("asarray", Var("Psi_H"))) >>)

calc_Psi_M ==
    Def(<<"zoL">>,
        << Assign("zoL", Un("asarray", Var("zoL"))),
           Assign("Psi_M", Un("zeros", Var("zoL"))),
           Assign("a", Num(F(61, -1))),
           Assign("b", Num(F(25, -1))),
           AssignIdx("Psi_M", Bin("ge", Var("zoL"), Num(Zero)),
               Bin("mul", Un("neg", Var("a")),
                   Un("log",
                      Bin("add", Idx(Var("zoL"), Bin("ge", Var("zoL"), Num(Zero))),
                          Bin("pow",
                              Bin("add", Num(One),
                                  Bin("pow", Idx(Var("zoL"),
                                                 Bin("ge", Var("zoL"), Num(Zero))),
                                      Var("b"))),
                              Bin("div", Num(One), Var("b"))))))),
           Assign("y", Bin("maximum", Un("neg", Var("zoL")), Num(Zero))),
           Assign("a", Num(F(33, -2))),
           Assign("b", Num(F(41, -2))),
           Assign("x", Un("asarray", Bin("pow", Bin("div", Var("y"), Var("a")),
                                         Num(F(333333, -6))))),
           Assign("Psi_0",
               Bin("add", Un("neg", Un("log", Var("a"))),
                   Bin("div",
                       Bin("mul",
                           Bin("mul",
                               Bin("mul", Bin("pow", Num(F(3, 0)), Num(F(5, -1))),
                                   Var("b")),
                               Bin("pow", Var("a"), Num(F(333333, -6)))),
                           Num(F(3141592, -6))),
                       Num(F(6, 0))))),
           Assign("y", Bin("minimum", Var("y"), Bin("pow", Var("b"), Num(F(-3, 0))))),
           Assign("i", Bin("lt", Var("zoL"), Num(Zero))),
           AssignIdx("Psi_M", Var("i"),
               Bin("add",
                   Bin("add",
                       Bin("add",
                           Bin("sub",
                               Un("log", Bin("add", Var("a"), Idx(Var("y"), Var("i")))),
                               Bin("mul", Bin("mul", Num(F(3, 0)), Var("b")),
                                   Bin("pow", Idx(Var("y"), Var("i")),
                                       Num(F(333333, -6))))),
                           Bin("mul",
                               Bin("div",
                                   Bin("mul", Var("b"),
                                       Bin("pow", Var("a"), Num(F(333333, -6)))),
                                   Num(F(2, 0))),
                               Un("log",
                                  Bin("div",
                                      Un("pow2", Bin("add", Num(One),
                                                     Idx(Var("x"), Var("i")))),
                                      Bin("add",
                                          Bin("sub", Num(One), Idx(Var("x"), Var("i"))),
                                          Un("pow2", Idx(Var("x"), Var("i")))))))),
                       Bin("mul",
                           Bin("mul",
                               Bin("mul", Bin("pow", Num(F(3, 0)), Num(F(5, -1))),
                                   Var("b")),
                               Bin("pow", Var("a"), Num(F(333333, -6)))),
                           Un("arctan",
                              Bin("div",
                                  Bin("sub", Bin("mul", Num(F(2, 0)),
                                                 Idx(Var("x"), Var("i"))),
                                      Num(One)),
                                  Bin("pow", Num(F(3, 0)), Num(F(5, -1))))))),
                   Var("Psi_0"))),
           Return(Un("asarray", Var("Psi_M"))) >>)

calc_richardson ==
    Def(<<"u", "z_u", "d_0", "T_R0", "T_R1", "T_A0", "T_A1">>,
        << Assign("Ri",
               Bin("mul",
                   Un("neg", Bin("div", Bin("mul", Num(gravity),
                                            Bin("sub", Var("z_u"), Var("d_0"))),
                                 Var("T_A1"))),
                   Bin("div",
                       Bin("sub", Bin("sub", Var("T_R1"), Var("T_R0")),
                           Bin("sub", Var("T_A1"), Var("T_A0"))),
                       Un("pow2", Var("u"))))),
           Return(Un("asarray", Var("Ri"))) >>)

calc_u_C ==
    Def(<<"u_friction", "h_C", "d_0", "z_0M">>,
        << Assign("u_C",
               Bin("div",
                   Bin("mul",
                       Un("log", Bin("div", Bin("sub", Var("h_C"), Var("d_0")),
                                     Var("z_0M"))),
                       Var("u_friction")),
                   Num(k))),
           Return(Un("asarray", Var("u_C"))) >>)

\* calc_u_C_star with the displacement height left out of the log profile
calc_u_C_star_NoDisplacement ==
    Def(<<"u_friction", "h_C", "d_0", "z_0M", "L">>,
        << Assign("Psi_M", CallF("calc_Psi_M",
                               <<Bin("div", Bin("sub", Var("h_C"), Var("d_0")),
                                     Var("L"))>>)),
           Assign("Psi_M0", CallF("calc_Psi_M", <<Bin("div", Var("z_0M"), Var("L"))>>)),
           Assign("u_C",
               Bin("div",
                   Bin("mul", Var("u_friction"),
                       Bin("add",
                           Bin("sub",
                               Un("log", Bin("div", Var("h_C"), Var("z_0M"))),
                               Var("Psi_M")),
                           Var("Psi_M0"))),
                   Num(k))),
           Return(Un("asarray", Var("u_C"))) >>)

calc_u_C_star ==
    Def(<<"u_friction", "h_C", "d_0", "z_0M", "L">>,
        << Assign("Psi_M", CallF("calc_Psi_M",
                               <<Bin("div", Bin("sub", Var("h_C"), Var("d_0")),
                                     Var("L"))>>)),
           Assign("Psi_M0", CallF("calc_Psi_M", <<Bin("div", Var("z_0M"), Var("L"))>>)),
           Assign("u_C",
               Bin("div",
                   Bin("mul", Var("u_friction"),
                       Bin("add",
                           Bin("sub",
                               Un("log", Bin("div", Bin("sub", Var("h_C"), Var("d_0")),
                                             Var("z_0M"))),
                               Var("Psi_M")),
                           Var("Psi_M0"))),
                   Num(k))),
           Return(Un("asarray", Var("u_C"))) >>)

calc_A_Goudriaan ==
    Def(<<"h_C", "LAI", "leaf_width">>,
        << Assign("k3_prime", Num(F(28, -2))),
           Assign("a",
               Bin("mul",
                   Bin("mul",
                       Bin("mul", Var("k3_prime"),
                           Bin("pow", Var("LAI"),
                               Bin("div", Num(F(2, 0)), Num(F(3, 0))))),
                       Bin("pow", Var("h_C"), Bin("div", Num(One), Num(F(3, 0))))),
                   Bin("pow", Var("leaf_width"),
                       Bin("div", Num(F(-1, 0)), Num(F(3, 0)))))),
           Return(Un("asarray", Var("a"))) >>)

calc_u_Goudriaan ==
    Def(<<"u_C", "h_C", "LAI", "leaf_width", "z">>,
        << Assign("a", CallF("calc_A_Goudriaan",
                           <<Var("h_C"), Var("LAI"), Var("leaf_width")>>)),
           Assign("u_z",
               Bin("mul", Var("u_C"),
                   Un("exp", Bin("mul", Un("neg", Var("a")),
                                 Bin("sub", Num(One),
                                     Bin("div", Var("z"), Var("h_C"))))))),
           Return(Un("asarray", Var("u_z"))) >>)

\* calc_u_star with the two branches of "if useRi" exchanged
calc_u_star_SwappedBranches ==
    Def(<<"u", "z_u", "L", "d_0", "z_0M", "useRi">>,
        << Assign("u", Un("asarray", Var("u"))),
           Assign("z_u", Un("asarray", Var("z_u"))),
           Assign("L", Un("asarray", Var("L"))),
           Assign("d_0", Un("asarray", Var("d_0"))),
           Assign("z_0M", Un("asarray", Var("z_0M"))),
           If(Var("useRi"),
              << AssignIdx("L", Bin("eq", Var("L"), Num(Zero)), Num(F(1, -36))),
                 Assign("Psi_M", CallF("calc_Psi_M",
                                     <<Bin("div", Bin("sub", Var("z_u"), Var("d_0")),
                                           Var("L"))>>)),
                 Assign("Psi_M0", CallF("calc_Psi_M",
                                      <<Bin("div", Var("z_0M"), Var("L"))>>)) >>,
              << Assign("Psi_M", CallF("calc_Psi_M", <<Var("L")>>)),
                 Assign("Psi_M0", CallF("calc_Psi_M",
                                      <<Bin("mul",
                                            Bin("div", Var("L"),
                                                Bin("sub", Var("z_u"), Var("d_0"))),
                                            Var("z_0M"))>>)) >>),
           Assign("u_star",
               Bin("div", Bin("mul", Var("u"), Num(k)),
                   Bin("add",
                       Bin("sub",
                           Un("log", Bin("div", Bin("sub", Var("z_u"), Var("d_0")),
                                         Var("z_0M"))),
                           Var("Psi_M")),
                       Var("Psi_M0")))),
           Return(Un("asarray", Var("u_star"))) >>)

calc_u_star ==
    Def(<<"u", "z_u", "L", "d_0", "z_0M", "useRi">>,
        << Assign("u", Un("asarray", Var("u"))),
           Assign("z_u", Un("asarray", Var("z_u"))),
           Assign("L", Un("asarray", Var("L"))),
           Assign("d_0", Un("asarray", Var("d_0"))),
           Assign("z_0M", Un("asarray", Var("z_0M"))),
           If(Var("useRi"),
              << Assign("Psi_M", CallF("calc_Psi_M", <<Var("L")>>)),
                 Assign("Psi_M0", CallF("calc_Psi_M",
                                      <<Bin("mul",
                                            Bin("div", Var("L"),
                                                Bin("sub", Var("z_u"), Var("d_0"))),
                                            Var("z_0M"))>>)) >>,
              << AssignIdx("L", Bin("eq", Var("L"), Num(Zero)), Num(F(1, -36))),
                 Assign("Psi_M", CallF("calc_Psi_M",
                                     <<Bin("div", Bin("sub", Var("z_u"), Var("d_0")),
                                           Var("L"))>>)),
                 Assign("Psi_M0", CallF("calc_Psi_M",
                                      <<Bin("div", Var("z_0M"), Var("L"))>>)) >>),
           Assign("u_star",
               Bin("div", Bin("mul", Var("u"), Num(k)),
                   Bin("add",
                       Bin("sub",
                           Un("log", Bin("div", Bin("sub", Var("z_u"), Var("d_0")),
                                         Var("z_0M"))),
                           Var("Psi_M")),
                       Var("Psi_M0")))),
           Return(Un("asarray", Var("u_star"))) >>)

\* the functions a call can name
Module ==
    [calc_lambda |-> calc_lambda, calc_L |-> calc_L, calc_Psi_H |-> calc_Psi_H,
     calc_Psi_M |-> calc_Psi_M, calc_richardson |-> calc_richardson,
     calc_u_C |-> calc_u_C, calc_u_C_star |-> calc_u_C_star,
     calc_A_Goudriaan |-> calc_A_Goudriaan, calc_u_Goudriaan |-> calc_u_Goudriaan,
     calc_u_star |-> calc_u_star]

\* ----------------------------------------------------- Python evaluation
(***************************************************************************)
(* env binds the local names of a call to values, st holds the caller's    *)
(* array objects by name.  An argument that is one of the caller's arrays  *)
(* is passed as its name, np.asarray returns it as the same name, and an   *)
(* assignment through a local name bound to it changes the caller's        *)
(* object.  Every expression result is [v, st]: the value, or the          *)
(* exception raised, and the store after the evaluation.  Operands are     *)
(* evaluated once, left to right.  A statement result is [env, st, v,      *)
(* done]: done when the statement returned v or raised v.                  *)
(***************************************************************************)
RECURSIVE Eval(_, _, _)
RECURSIVE EvalArgs(_, _, _, _, _)
RECURSIVE Block(_, _, _, _, _)

\* the local names of a call: the parameters bound to the arguments
BindArgs(params, vals) ==
    [n \in {params[j] : j \in 1..Len(params)} |->
        vals[CHOOSE j \in 1..Len(params) : params[j] = n]]
\* env after n = v
Bind(env, n, v) == [m \in (DOMAIN env) \cup {n} |-> IF m = n THEN v ELSE env[m]]

\* op(a) for an evaluated operand a
ApplyUn(op, a) ==
    IF IsExc(a.v) THEN a
    ELSE [v  |-> IF op = "asarray" /\ IsRef(a.v) THEN a.v
                 ELSE UnOp(op, Deref(a.v, a.st)),
          st |-> a.st]

\* a op b and a[b] for evaluated operands a and b; "operands" keeps both
ApplyBin(op, a, b) ==
    [v  |-> IF IsExc(b.v) THEN b.v
            ELSE IF op = "operands" THEN Args(<<a.v, b.v>>)
            ELSE IF op = "getitem"
                 THEN GetMask(Deref(a.v, b.st), Deref(b.v, b.st))
                 ELSE BinOp(op, Deref(a.v, b.st), Deref(b.v, b.st)),
     st |-> b.st]

\* the call fn(vals) in store st
Invoke(fn, vals, st) ==
    CHOOSE r \in
        {[v |-> s.v, st |-> s.st] :
            s \in {CHOOSE q \in
                      {Block(f.body, 1, Len(f.body), BindArgs(f.params, vals), st) :
                          f \in {Module[fn]}} : TRUE}} : TRUE

Eval(e, env, st) ==
    CASE e[1] = "var"   -> [v |-> env[e[2]], st |-> st]
      [] e[1] = "const" -> [v |-> e[2], st |-> st]
      [] e[1] = "un"    ->
            CHOOSE r \in {ApplyUn(e[2], a) : a \in {Eval(e[3], env, st)}} : TRUE
      [] e[1] = "bin"   ->
            CHOOSE r \in
                {IF IsExc(a.v) THEN a
                 ELSE CHOOSE q \in {ApplyBin(e[2], a, b) :
                                       b \in {Eval(e[4], env, a.st)}} : TRUE :
                    a \in {Eval(e[3], env, st)}} : TRUE
      [] e[1] = "call"  ->
            CHOOSE r \in
                {IF IsExc(a.v) THEN a ELSE Invoke(e[2], a.v.data, a.st) :
                    a \in {EvalArgs(e[3], 1, <<>>, env, st)}} : TRUE

\* the arguments es[j..] of a call, evaluated after the values acc
EvalArgs(es, j, acc, env, st) ==
    IF j > Len(es) THEN [v |-> Args(acc), st |-> st]
    ELSE CHOOSE r \in
            {IF IsExc(a.v) THEN a
             ELSE EvalArgs(es, j + 1, Append(acc, a.v), env, a.st) :
                a \in {Eval(es[j], env, st)}} : TRUE

\* the result of a statement that goes on to the next one
Goes(env, st) == [env |-> env, st |-> st, v |-> None, done |-> FALSE]
\* the result of a statement that returns or raises a.v
Ends(env, a) == [env |-> env, st |-> a.st, v |-> a.v, done |-> TRUE]

\* n[i] = e for the evaluated operands a of the statement: the object
\* changed is the caller's when n names one of the caller's arrays
AssignInto(env, n, a) ==
    CHOOSE r \in
        {IF IsExc(new) THEN Ends(env, [v |-> new, st |-> a.st])
         ELSE IF IsRef(env[n])
              THEN Goes(env, [a.st EXCEPT ![env[n].exc] = new])
              ELSE Goes(Bind(env, n, new), a.st) :
            new \in {SetMask(Deref(env[n], a.st), Deref(a.v.data[2], a.st),
                             Deref(a.v.data[1], a.st))}} : TRUE

\* the statement s once its expression is evaluated to a
After(s, env, a) ==
    IF IsExc(a.v) \/ s[1] = "return" THEN Ends(env, a)
    ELSE IF s[1] = "assign" THEN Goes(Bind(env, s[2], a.v), a.st)
    ELSE IF s[1] = "assignidx" THEN AssignInto(env, s[2], a)
    ELSE Block(IF Deref(a.v, a.st).data[1] THEN s[4] ELSE s[5], 1,
               Len(IF Deref(a.v, a.st).data[1] THEN s[4] ELSE s[5]), env, a.st)

\* one statement
Step(s, env, st) ==
    CHOOSE r \in {After(s, env, a) : a \in {Eval(s[3], env, st)}} : TRUE

\* the statements stmts[lo..hi], the first half before the second
Block(stmts, lo, hi, env, st) ==
    IF lo > hi THEN Goes(env, st)
    ELSE IF lo = hi THEN Step(stmts[lo], env, st)
    ELSE CHOOSE r \in
            {IF s.done THEN s
             ELSE Block(stmts, (lo + hi) \div 2 + 1, hi, s.env, s.st) :
                s \in {Block(stmts, lo, (lo + hi) \div 2, env, st)}} : TRUE

\* ------------------------------------------------------------- the caller
(***************************************************************************)
(* The caller owns four arrays of N elements and calls the public          *)
(* functions with Python scalars and with its arrays.  heap is the         *)
(* current content of the caller's arrays, orig their content when they    *)
(* were created, and last records the latest call: the function, the       *)
(* arguments as passed (a scalar or the name of an array), their values    *)
(* when the call started, and what the call returned or raised.           *)
(* calc_u_star is the only function handed an array that it assigns into:  *)
(* the caller goes on calling after it has passed one of its arrays to     *)
(* calc_u_star as L, so every function is called on every content the      *)
(* arrays can get.                                                         *)
(***************************************************************************)
VARIABLES heap, orig, last
vars == <<heap, orig, last>>

\* number of elements of the caller's arrays
N == 2

DerefAll(args, h) == [j \in 1..Len(args) |-> Deref(args[j], h)]

\* an array of N elements that alternates between p[1] and p[2]
Arr(dt, p) == Np(dt, <<N>>, [j \in 1..N |-> IF j % 2 = 1 THEN p[1] ELSE p[2]])

LfPatterns == { <<Zero, F(5, 0)>>, <<PInf, PInf>>, <<NaN, F(-20, 0)>>,
                <<F(-100, 0), Zero>> }

Init ==
    /\ \E p \in LfPatterns :
          heap = [n \in {"Lf", "Li", "X", "T"} |->
                     CASE n = "Lf" -> Arr("f8", p)
                       [] n = "Li" -> Arr("i8", <<Zero, F(2, 0)>>)
                       [] n = "X"  -> Arr("f8", <<F(3, 0), F(2, 0)>>)
                       [] n = "T"  -> Arr("f8", <<F(300, 0), F(290, 0)>>)]
    /\ orig = heap
    /\ last = [fn |-> "none", args |-> <<>>, vals |-> <<>>, ret |-> None]

\* the value fn returns, or the exception it raises, on the values v
Apply(fn, v) == Invoke(fn, v, <<>>).v

\* the caller has made no call yet, or its latest call handed one of its
\* arrays to calc_u_star as L
Ready ==
    \/ last.fn = "none"
    \/ last.fn = "calc_u_star" /\ IsRef(last.args[3])

\* the call fn(args): the callee runs on the caller's objects
Call(fn, args) ==
    /\ \E r \in {Invoke(fn, args, heap)} :
          /\ last' = [fn |-> fn, args |-> args, vals |-> DerefAll(args, heap),
                      ret |-> Deref(r.v, r.st)]
          /\ heap' = r.st
    /\ UNCHANGED orig

Call_calc_L ==
    \E ustar \in {Py(F(3, -1)), Ref("X")}, T_A_K \in {Py(F(300, 0)), Ref("T")},
       rho \in {Py(F(12, -1)), Ref("Lf")}, c_p \in {Py(F(1004, 0)), Ref("X")},
       H \in {Py(Zero), Py(F(100, 0)), Ref("Lf")}, LE \in {Py(Zero), Ref("X")} :
        Ready /\ Call("calc_L", <<ustar, T_A_K, rho, c_p, H, LE>>)

Call_calc_Psi_H ==
    \E zoL \in {Py(Zero), Py(F(5, -1)), Py(F(-1, 0)), Py(NaN), Ref("Lf"), Ref("Li")} :
        Ready /\ Call("calc_Psi_H", <<zoL>>)

Call_calc_Psi_M ==
    \E zoL \in {Py(Zero), Py(F(5, -1)), Py(F(-1, 0)), Py(F(-20, 0)), Py(F(-100, 0)),
                Py(NaN), Ref("Lf"), Ref("Li")} :
        Ready /\ Call("calc_Psi_M", <<zoL>>)

Call_calc_richardson ==
    \E u \in {Py(Zero), Py(F(3, 0)), Ref("Lf"), Ref("X")},
       T_R1 \in {Py(F(305, 0)), Ref("T")} :
        Ready /\ Call("calc_richardson",
                      <<u, Py(F(10, 0)), Py(F(6, -1)), Py(F(300, 0)), T_R1,
                        Py(F(295, 0)), Py(F(297, 0))>>)

Call_calc_u_C ==
    \E u_friction \in {Py(F(3, -1)), Ref("X")}, h_C \in {Py(F(2, 0)), Ref("X")},
       z_0M \in {Py(F(25, -2)), Py(Zero), Ref("Lf")} :
        Ready /\ Call("calc_u_C", <<u_friction, h_C, Py(F(13, -1)), z_0M>>)

Call_calc_u_C_star ==
    \E u_friction \in {Py(F(3, -1)), Ref("X")}, h_C \in {Py(F(2, 0)), Ref("X")},
       L \in {Py(PInf), Py(Zero), Py(NaN), Py(F(-5, 0)), Ref("Lf")} :
        Ready /\ Call("calc_u_C_star", <<u_friction, h_C, Py(F(13, -1)), Py(F(25, -2)), L>>)

Call_calc_A_Goudriaan ==
    \E h_C \in {Py(F(2, 0)), Ref("X")}, leaf_width \in {Py(F(5, -2)), Py(Zero), Ref("X")} :
        Ready /\ Call("calc_A_Goudriaan", <<h_C, Py(F(3, 0)), leaf_width>>)

Call_calc_u_Goudriaan ==
    \E u_C \in {Py(F(5, 0)), Ref("X")}, h_C \in {Py(F(2, 0)), Ref("X")},
       z \in {Py(F(2, 0)), Py(One), Ref("X")} :
        Ready /\ Call("calc_u_Goudriaan", <<u_C, h_C, Py(F(3, 0)), Py(F(5, -2)), z>>)

Call_calc_u_star ==
    \E u \in {Py(F(3, 0)), Ref("X")},
       L \in {Py(PInf), Py(Zero), PyI(Zero), Py(NaN), Py(F(-5, 0)),
              Ref("Lf"), Ref("Li")},
       useRi \in BOOLEAN :
        Ready /\ Call("calc_u_star", <<u, Py(F(10, 0)), L, Py(F(6, -1)), Py(F(1, -1)), PyB(useRi)>>)

Next ==
    \/ Call_calc_L
    \/ Call_calc_Psi_H
    \/ Call_calc_Psi_M
    \/ Call_calc_richardson
    \/ Call_calc_u_C
    \/ Call_calc_u_C_star
    \/ Call_calc_A_Goudriaan
    \/ Call_calc_u_Goudriaan
    \/ Call_calc_u_star

Spec == Init /\ [][Next]_vars

\* ----------------------------------------------------------------- claims
\* TRUE when v is one of the arrays of N elements
IsArray(v) == v.t = "np" /\ v.shape = <<N>>
AnyArray(vals) == \E j \in 1..Len(vals) : IsArray(vals[j])
\* the elements a call on vals works on
Elems(vals) == IF AnyArray(vals) THEN 1..N ELSE {1}
\* element i of a value, scalars being broadcast
At(v, i) == IF IsArray(v) THEN v.data[i] ELSE v.data[1]
\* element i of a value as the Python scalar a scalar-only call would pass
Elem(v, i) == IF IsArray(v) THEN (IF v.dt = "i8" THEN PyI(v.data[i]) ELSE Py(v.data[i]))
              ELSE v
ScalarVals(vals, i) == [j \in 1..Len(vals) |-> Elem(vals[j], i)]
Returned == last.fn # "none" /\ ~IsExc(last.ret)
Unbounded == {PInf, NInf, NaN}
\* the latest call is calc_u_star with useRi=False
TrueLength == last.fn = "calc_u_star" /\ ~last.vals[6].data[1]

\* C1: no function mutates its inputs: after every call the contents of the
\* caller's arrays equal their contents before the call.
C1_InputsUnchanged == [][heap' = heap]_vars

\* C2: a call with a mix of scalars and arrays of shape (N,) does not raise
\* and returns an array of shape (N,) whose element i is the result of the
\* scalar-only call on the i-th elements.
C2_Broadcast ==
    (last.fn # "none" /\ AnyArray(last.vals)) =>
        /\ ~IsExc(last.ret)
        /\ last.ret.shape = <<N>>
        /\ \A i \in 1..N :
              LET r == Apply(last.fn, ScalarVals(last.vals, i))
              IN  ~IsExc(r) /\ last.ret.data[i] = r.data[1]

\* the virtual sensible heat flux and the Obukhov length of one element
HvOf(T_A_K, c_p, H, LE) ==
    Add(H, Mul(Mul(Mul(F(61, -2), T_A_K), c_p),
               Div(LE, Mul(Sub(F(2501, -3), Mul(F(2361, -6), Sub(T_A_K, F(27315, -2)))),
                           F(1, 6)))))
LOf(ustar, T_A_K, rho, c_p, Hv) ==
    Div(Neg(IntPow(ustar, 3)),
        Mul(Div(Mul(k, gravity), T_A_K), Div(Hv, Mul(rho, c_p))))

\* C3: calc_L does not raise; every element whose Hv is zero is +infinity,
\* whatever ustar, rho and c_p are there, and every element whose Hv is not
\* zero is -ustar^3 / ((k g / T_A_K) (Hv / (rho c_p))).
C3_HvGuard ==
    last.fn = "calc_L" =>
        /\ ~IsExc(last.ret)
        /\ \A i \in Elems(last.vals) :
              LET v  == ScalarVals(last.vals, i)
                  Hv == HvOf(v[2].data[1], v[4].data[1], v[5].data[1], v[6].data[1])
              IN  At(last.ret, i) =
                     IF FEq(Hv, Zero) THEN PInf
                     ELSE LOf(v[1].data[1], v[2].data[1], v[3].data[1], v[4].data[1], Hv)

\* C4: calc_u_star with useRi=False does not raise for an L with a zero
\* element of any numeric type; the zero is replaced by 1e-36 (in the array
\* given as L, when L is an array) and, for z_u > d_0 and z_0M > 0, the
\* friction velocity there is finite.
C4_ZeroLength ==
    TrueLength =>
        \A i \in Elems(last.vals) :
            (/\ FEq(At(last.vals[3], i), Zero)
             /\ Lt(At(last.vals[4], i), At(last.vals[2], i))
             /\ Lt(Zero, At(last.vals[5], i))) =>
                /\ ~IsExc(last.ret)
                /\ IsFin(At(last.ret, i))
                /\ (IsRef(last.args[3]) =>
                       heap[last.args[3].exc].data[i] = F(1, -36))

\* the clamp threshold 0.41^-3 of calc_Psi_M
Clamp == Pow(F(41, -2), F(-3, 0))

\* C5: calc_Psi_M saturates: for every z/L below -(0.41^-3) the result is
\* calc_Psi_M(-(0.41^-3)).
C5_Saturates ==
    last.fn = "calc_Psi_M" =>
        \A i \in Elems(last.vals) :
            Lt(At(last.vals[1], i), Neg(Clamp)) =>
                /\ ~IsExc(last.ret)
                /\ At(last.ret, i) = Apply("calc_Psi_M", <<Py(Neg(Clamp))>>).data[1]

\* C6: every call returns what it would return as the only call made on
\* fresh copies of the original arrays.
C6_Transparent ==
    last.fn # "none" => last.ret = Apply(last.fn, DerefAll(last.args, orig))

\* the call divides by a zero at element i
ZeroDivisor(i) ==
    \/ last.fn = "calc_richardson" /\ FEq(At(last.vals[1], i), Zero)
    \/ last.fn = "calc_u_C" /\ FEq(At(last.vals[4], i), Zero)
    \/ last.fn = "calc_u_C_star" /\ FEq(At(last.vals[5], i), Zero)

\* C7: calc_richardson with u = 0, calc_u_C with z_0M = 0 and calc_u_C_star
\* with L = 0 do not raise, for scalars and arrays alike: the result is
\* +infinity, -infinity or NaN.
C7_NoZeroDivisionError ==
    last.fn \in {"calc_richardson", "calc_u_C", "calc_u_C_star"} =>
        \A i \in Elems(last.vals) :
            ZeroDivisor(i) => (~IsExc(last.ret) /\ At(last.ret, i) \in Unbounded)

\* the call is calc_u_C_star in the neutral limit on valid canopy geometry
NeutralCanopy ==
    /\ last.fn = "calc_u_C_star"
    /\ \A i \in Elems(last.vals) :
          /\ At(last.vals[5], i) = PInf
          /\ Lt(At(last.vals[3], i), At(last.vals[2], i))
          /\ Lt(Zero, At(last.vals[4], i))

\* C8: with L = +infinity (the default), h_C > d_0 and z_0M > 0,
\* calc_u_C_star returns exactly what calc_u_C returns on the same arguments.
C8_NeutralCanopyWind ==
    NeutralCanopy =>
        LET uC == Apply("calc_u_C", SubSeq(last.vals, 1, 4))
        IN  /\ ~IsExc(last.ret)
            /\ \A i \in Elems(last.vals) : At(last.ret, i) = At(uC, i)
            /\ (~IsArray(last.vals[5]) => last.ret = uC)

C8_Witness ==
    /\ NeutralCanopy
    /\ last.vals[5] = Py(PInf)
    /\ IsArray(last.vals[1])
    /\ Returned
    /\ \A i \in 1..N : IsFin(At(last.ret, i)) /\ Lt(Zero, At(last.ret, i))

\* the call is calc_u_star on a true Obukhov length of +infinity
NeutralFriction ==
    /\ TrueLength
    /\ \A i \in Elems(last.vals) :
          /\ At(last.vals[3], i) = PInf
          /\ Lt(At(last.vals[4], i), At(last.vals[2], i))
          /\ Lt(Zero, At(last.vals[5], i))

\* C9: with L = +infinity, useRi=False, z_u > d_0 and z_0M > 0, calc_u_star
\* returns u k / ln((z_u - d_0) / z_0M).
C9_NeutralFrictionVelocity ==
    NeutralFriction =>
        /\ ~IsExc(last.ret)
        /\ \A i \in Elems(last.vals) :
              At(last.ret, i) =
                 Div(Mul(At(last.vals[1], i), k),
                     Ln(Div(Sub(At(last.vals[2], i), At(last.vals[4], i)),
                            At(last.vals[5], i))))

C9_Witness ==
    /\ NeutralFriction
    /\ SubSeq(last.vals, 1, 5) =
          <<Py(F(3, 0)), Py(F(10, 0)), Py(PInf), Py(F(6, -1)), Py(F(1, -1))>>
    /\ Returned
    /\ Lt(F(26, -2), last.ret.data[1]) /\ Lt(last.ret.data[1], F(27, -2))

\* C10: NaN propagates: calc_Psi_H and calc_Psi_M return NaN at every NaN
\* element of the stability ratio, and calc_u_star and calc_u_C_star called
\* with L = NaN return NaN.
C10_NaNPropagates ==
    /\ last.fn \in {"calc_Psi_H", "calc_Psi_M"} =>
          \A i \in Elems(last.vals) :
              IsNaN(At(last.vals[1], i)) => (~IsExc(last.ret) /\ IsNaN(At(last.ret, i)))
    /\ last.fn = "calc_u_star" =>
          \A i \in Elems(last.vals) :
              IsNaN(At(last.vals[3], i)) => (~IsExc(last.ret) /\ IsNaN(At(last.ret, i)))
    /\ last.fn = "calc_u_C_star" =>
          \A i \in Elems(last.vals) :
              IsNaN(At(last.vals[5], i)) => (~IsExc(last.ret) /\ IsNaN(At(last.ret, i)))

====
